---------------------------- MODULE Spec2Model ----------------------------
(***************************************************************************)
(* A model of the data-access layer of the job-app backend: the partial-   *)
(* update fragment builder (helpers/sql.js), the Company and Job models    *)
(* (models/company.js, models/job.js) and their filter predicate builders. *)
(*                                                                         *)
(* The database is modelled as two tables (sequences of rows).  Every      *)
(* method is an operator from (table, inputs, fault) to an outcome record  *)
(* holding the error thrown, the value returned, the number of statements  *)
(* issued and the table afterwards; the actions apply these operators.     *)
(***************************************************************************)
EXTENDS Integers, Sequences, FiniteSets, TLC

VARIABLES companies, jobs, nextId, res

vars == <<companies, jobs, nextId, res>>

(***************************************************************************)
(* Bounds of the model.                                                    *)
(***************************************************************************)
MaxKeys == 2      \* keys of a dataToUpdate drawn for sqlForPartialUpdate
MaxId == 2        \* ids the jobs serial hands out
MaxCallers == 2   \* concurrent calls of Job.create

(***************************************************************************)
(* JavaScript values.  Every value carries its type tag; n is the number   *)
(* of a "number" (and 1/0 of a boolean), s the text of a "string".         *)
(***************************************************************************)
Undefined == [t |-> "undefined", n |-> 0, s |-> ""]
Null == [t |-> "null", n |-> 0, s |-> ""]
Num(k) == [t |-> "number", n |-> k, s |-> ""]
Str(x) == [t |-> "string", n |-> 0, s |-> x]
Bool(b) == [t |-> "boolean", n |-> IF b THEN 1 ELSE 0, s |-> ""]

\* ToBoolean: undefined, null, 0, "" and false are falsy.
Truthy(v) ==
    CASE v.t = "undefined" -> FALSE
      [] v.t = "null" -> FALSE
      [] v.t = "number" -> v.n # 0
      [] v.t = "string" -> v.s # ""
      [] v.t = "boolean" -> v.n = 1

\* a || b
JsOr(a, b) == IF Truthy(a) THEN a ELSE b

\* a === b
StrictEq(a, b) == a = b

\* ToNumber of undefined, null, "", numbers and booleans: undefined is NaN,
\* null and "" are 0.
IsNaN(v) == v.t = "undefined"
ToNumber(v) == IF v.t \in {"number", "boolean"} THEN v.n ELSE 0

\* a > b on such operands: false as soon as one side is NaN.
JsGreater(a, b) == ~IsNaN(a) /\ ~IsNaN(b) /\ ToNumber(a) > ToNumber(b)

(***************************************************************************)
(* Objects are sequences of [k, v] entries with distinct keys, in          *)
(* insertion order (Object.keys / Object.values order).                    *)
(***************************************************************************)
Entry(k, v) == [k |-> k, v |-> v]

ObjectKeys(o) == [i \in 1..Len(o) |-> o[i].k]

ObjectValues(o) == [i \in 1..Len(o) |-> o[i].v]

HasKey(o, k) == \E i \in 1..Len(o) : o[i].k = k

\* o[k]: undefined when the object has no such key.
Prop(o, k) == IF HasKey(o, k) THEN o[CHOOSE i \in 1..Len(o) : o[i].k = k].v ELSE Undefined

\* The objects over the keys ks (a sequence) whose values come from vals(k),
\* every key present or absent, keys kept in the order of ks.
RECURSIVE ObjectsOver(_, _)
ObjectsOver(ks, vals) ==
    IF ks = <<>> THEN {<<>>}
    ELSE LET rest == ObjectsOver(Tail(ks), vals)
         IN  rest \cup {<<Entry(Head(ks), v)>> \o o : v \in vals[Head(ks)], o \in rest}

\* cols.join(sep)
RECURSIVE Join(_, _)
Join(xs, sep) ==
    IF xs = <<>> THEN ""
    ELSE IF Len(xs) = 1 THEN xs[1]
    ELSE xs[1] \o sep \o Join(Tail(xs), sep)

(***************************************************************************)
(* helpers/sql.js: sqlForPartialUpdate(dataToUpdate, jsToSql).             *)
(* jsToSql is a JS value: NoTable is the missing argument (undefined), a   *)
(* table is an object whose values are column names.                       *)
(***************************************************************************)
NoTable == [def |-> FALSE, obj |-> <<>>]
Table(o) == [def |-> TRUE, obj |-> o]

\* `"${jsToSql[colName] || colName}"`: the column a key is written to.
ColumnOf(jsToSql, colName) == JsOr(Prop(jsToSql.obj, colName), Str(colName)).s

\* Mutant: the parameter index left 0-based.
ClauseText_ZeroBased(col, idx) == "\"" \o col \o "\"=$" \o ToString(idx)

\* `"<column>"=$<idx + 1>`, idx the 0-based index of Array.prototype.map.
ClauseText(col, idx) == "\"" \o col \o "\"=$" \o ToString(idx + 1)

Failure(kind) == [err |-> kind, setCols |-> "", cols |-> <<>>, clauses |-> <<>>, values |-> <<>>]

\* Mutant: the check for an empty mapping left out.
sqlForPartialUpdate_NoEmptyCheck(dataToUpdate, jsToSql) ==
    IF ~jsToSql.def /\ Len(dataToUpdate) > 0 THEN Failure("TypeError")
    ELSE [err |-> "none", cols |-> <<>>, clauses |-> <<>>, setCols |-> "",
          values |-> ObjectValues(dataToUpdate)]

\* The outcome: err is "none" and setCols/values are the returned object, or
\* err is the error thrown.  cols is the array the text is joined from and
\* clauses its parsed form (column, parameter index), which is what the
\* database reads out of the SET text.
sqlForPartialUpdate(dataToUpdate, jsToSql) ==
    LET keys == ObjectKeys(dataToUpdate)
    IN  IF Len(keys) = 0 THEN Failure("BadRequest")
        ELSE IF ~jsToSql.def THEN Failure("TypeError")
        ELSE [err |-> "none",
              cols |-> [i \in 1..Len(keys) |-> ClauseText(ColumnOf(jsToSql, keys[i]), i - 1)],
              clauses |-> [i \in 1..Len(keys) |->
                              [col |-> ColumnOf(jsToSql, keys[i]), param |-> (i - 1) + 1]],
              setCols |-> Join([i \in 1..Len(keys) |->
                                   ClauseText(ColumnOf(jsToSql, keys[i]), i - 1)], ", "),
              values |-> ObjectValues(dataToUpdate)]

(***************************************************************************)
(* Inputs of the builder.                                                  *)
(***************************************************************************)
SqlKeys == {"firstName", "lastName", "age"}
SqlValues == {Str("Bob"), Num(32), Null}
SqlColumns == {"first_name", "last_name"}

RECURSIVE DistinctKeySeqs(_, _)
DistinctKeySeqs(K, n) ==
    IF n = 0 THEN {<<>>}
    ELSE {<<>>} \cup {<<k>> \o s : k \in K, s \in DistinctKeySeqs(K, n - 1)}

HasDistinctKeys(ks) == \A i, j \in 1..Len(ks) : ks[i] = ks[j] => i = j

\* Every object of at most MaxKeys entries over SqlKeys, in every key order.
SqlDataInputs ==
    UNION {{[i \in 1..Len(ks) |-> Entry(ks[i], vs[i])] : vs \in [1..Len(ks) -> SqlValues]} :
              ks \in {s \in DistinctKeySeqs(SqlKeys, MaxKeys) : HasDistinctKeys(s)}}

\* The missing table, and every table naming a column for some of the keys.
SqlTableInputs ==
    {NoTable} \cup
    {Table(o) : o \in ObjectsOver(<<"firstName", "lastName", "age">>,
                                  [k \in SqlKeys |-> {Str(c) : c \in SqlColumns}])}

(***************************************************************************)
(* The database.  A table is a sequence of rows; a row maps column names   *)
(* to values (a SQL NULL is Null).  A statement that faults (lost          *)
(* connection, a parameter the column type rejects, an unknown column)     *)
(* raises "DbError".                                                       *)
(***************************************************************************)
\* a = b in SQL: never true when either side is NULL.
SqlEq(a, b) == a.t # "null" /\ b.t # "null" /\ a = b

\* a > b and a >= b in SQL on numbers: never true when either side is NULL.
SqlGt(a, b) == a.t # "null" /\ b.t # "null" /\ a.n > b.n
SqlGe(a, b) == a.t # "null" /\ b.t # "null" /\ a.n >= b.n

\* SET of an UPDATE: every clause writes its parameter to its column.
SetColumns(row, clauses, params) ==
    [c \in DOMAIN row |->
        IF \E i \in 1..Len(clauses) : clauses[i].col = c
        THEN params[clauses[CHOOSE i \in 1..Len(clauses) : clauses[i].col = c].param]
        ELSE row[c]]

\* UPDATE tbl SET <clauses> WHERE <keyCol> = key
UpdateRows(tbl, clauses, params, keyCol, key) ==
    [i \in 1..Len(tbl) |->
        IF SqlEq(tbl[i][keyCol], key) THEN SetColumns(tbl[i], clauses, params) ELSE tbl[i]]

\* The statement names only columns of the table.
KnownColumns(clauses, columns) == \A i \in 1..Len(clauses) : clauses[i].col \in columns

\* What a method call comes to: the error thrown ("none": it returned), the
\* rows returned, the statements issued, the table and the serial afterwards.
Outcome(err, ret, queries, tbl, serial) ==
    [err |-> err, ret |-> ret, queries |-> queries, tbl |-> tbl, serial |-> serial]

(***************************************************************************)
(* models/company.js                                                       *)
(***************************************************************************)
CompanyColumns == {"handle", "name", "description", "num_employees", "logo_url"}

\* RETURNING handle, name, description, num_employees AS "numEmployees",
\* logo_url AS "logoUrl"
CompanyRecord(row) ==
    [handle |-> row["handle"], name |-> row["name"], description |-> row["description"],
     numEmployees |-> row["num_employees"], logoUrl |-> row["logo_url"]]

\* VALUES ($1, $2, $3, $4, $5) for (handle, name, description, num_employees, logo_url)
CompanyRow(c) ==
    [col \in CompanyColumns |->
        CASE col = "handle" -> c.handle
          [] col = "name" -> c.name
          [] col = "description" -> c.description
          [] col = "num_employees" -> c.numEmployees
          [] col = "logo_url" -> c.logoUrl]

CompaniesWithHandle(tbl, handle) ==
    LET Match(r) == SqlEq(r["handle"], handle) IN SelectSeq(tbl, Match)

\* Mutant: the duplicate check left out.
CompanyCreate_NoDuplicateCheck(tbl, c, fault) ==
    IF fault # 0 THEN Outcome("DbError", <<>>, fault, tbl, 0)
    ELSE Outcome("none", <<CompanyRecord(CompanyRow(c))>>, 2, Append(tbl, CompanyRow(c)), 0)

\* Company.create: fault is the statement that faults (0: none).
CompanyCreate(tbl, c, fault) ==
    LET duplicateCheck == CompaniesWithHandle(tbl, c.handle)
    IN  IF fault = 1 THEN Outcome("DbError", <<>>, 1, tbl, 0)
        ELSE IF duplicateCheck # <<>> THEN Outcome("BadRequest", <<>>, 1, tbl, 0)
        ELSE IF fault = 2 THEN Outcome("DbError", <<>>, 2, tbl, 0)
        ELSE Outcome("none", <<CompanyRecord(CompanyRow(c))>>, 2, Append(tbl, CompanyRow(c)), 0)

\* Company.get
CompanyGet(tbl, handle, fault) ==
    LET rows == CompaniesWithHandle(tbl, handle)
    IN  IF fault = 1 THEN Outcome("DbError", <<>>, 1, tbl, 0)
        ELSE IF rows = <<>> THEN Outcome("NotFound", <<>>, 1, tbl, 0)
        ELSE Outcome("none", <<CompanyRecord(rows[1])>>, 1, tbl, 0)

CompanyJsToSql == Table(<<Entry("numEmployees", Str("num_employees")), Entry("logoUrl", Str("logo_url"))>>)

\* Company.update
CompanyUpdate(tbl, handle, data, fault) ==
    LET built == sqlForPartialUpdate(data, CompanyJsToSql)
        params == Append(built.values, handle)
        handleVarIdx == Len(built.values) + 1
        after == UpdateRows(tbl, built.clauses, params, "handle", params[handleVarIdx])
        rows == CompaniesWithHandle(after, handle)
    IN  IF built.err # "none" THEN Outcome(built.err, <<>>, 0, tbl, 0)
        ELSE IF fault = 1 \/ ~KnownColumns(built.clauses, CompanyColumns)
             THEN Outcome("DbError", <<>>, 1, tbl, 0)
        ELSE IF CompaniesWithHandle(tbl, handle) = <<>> THEN Outcome("NotFound", <<>>, 1, tbl, 0)
        ELSE Outcome("none", <<CompanyRecord(rows[1])>>, 1, after, 0)

\* Company.remove
CompanyRemove(tbl, handle, fault) ==
    LET Keep(r) == ~SqlEq(r["handle"], handle)
    IN  IF fault = 1 THEN Outcome("DbError", <<>>, 1, tbl, 0)
        ELSE IF CompaniesWithHandle(tbl, handle) = <<>> THEN Outcome("NotFound", <<>>, 1, tbl, 0)
        ELSE Outcome("none", <<>>, 1, SelectSeq(tbl, Keep), 0)

(***************************************************************************)
(* models/job.js                                                           *)
(***************************************************************************)
JobColumns == {"id", "title", "salary", "equity", "company_handle"}

\* A NUMERIC column is held in tenths; the driver returns it as its decimal
\* text ("0", "0.5"), a NULL as null.
NumericText(k) ==
    IF k % 10 = 0 THEN ToString(k \div 10) ELSE ToString(k \div 10) \o "." \o ToString(k % 10)

NumericOut(v) == IF v.t = "null" THEN Null ELSE Str(NumericText(v.n))

\* RETURNING id, title, salary, equity, company_handle
JobRecord(row) ==
    [id |-> row["id"], title |-> row["title"], salary |-> row["salary"],
     equity |-> NumericOut(row["equity"]), company_handle |-> row["company_handle"]]

\* VALUES ($1, $2, $3, $4) for (title, salary, equity, company_handle), the id
\* taken from the serial.
JobRow(id, j) ==
    [col \in JobColumns |->
        CASE col = "id" -> Num(id)
          [] col = "title" -> j.title
          [] col = "salary" -> j.salary
          [] col = "equity" -> j.equity
          [] col = "company_handle" -> j.company_handle]

\* A key reaches the database as text; the integer column id accepts it when
\* it is the text of an integer.
IdRange == (0 - 1)..(MaxId + 1)
IsIntText(key) == \E i \in IdRange : ToString(i) = key
ParseInt(key) == CHOOSE i \in IdRange : ToString(i) = key

JobsWithId(tbl, key) ==
    LET Match(r) == SqlEq(r["id"], Num(ParseInt(key))) IN SelectSeq(tbl, Match)

\* Mutant: the salary column compared with the equity parameter.
DupeRows_MixedParameters(tbl, j) ==
    LET Match(r) == /\ SqlEq(r["title"], j.title)
                    /\ SqlEq(r["salary"], j.equity)
                    /\ SqlEq(r["equity"], j.equity)
                    /\ SqlEq(r["company_handle"], j.company_handle)
    IN  SelectSeq(tbl, Match)

\* WHERE title = $1 AND salary = $2 AND equity = $3 AND company_handle = $4
DupeRows(tbl, j) ==
    LET Match(r) == /\ SqlEq(r["title"], j.title)
                    /\ SqlEq(r["salary"], j.salary)
                    /\ SqlEq(r["equity"], j.equity)
                    /\ SqlEq(r["company_handle"], j.company_handle)
    IN  SelectSeq(tbl, Match)

\* Job.dupeCheck followed by the INSERT of Job.create; serial is the next id.
JobCreate(tbl, serial, j, fault) ==
    IF fault = 1 THEN Outcome("DbError", <<>>, 1, tbl, serial)
    ELSE IF Len(DupeRows(tbl, j)) # 0 THEN Outcome("BadRequest", <<>>, 1, tbl, serial)
    ELSE IF fault = 2 THEN Outcome("DbError", <<>>, 2, tbl, serial)
    ELSE Outcome("none", <<JobRecord(JobRow(serial, j))>>, 2,
                 Append(tbl, JobRow(serial, j)), serial + 1)

\* catch (err) { throw new NotFoundError(...) }: whatever the try block threw.
CatchAsNotFound(thrown) == IF thrown = "none" THEN "none" ELSE "NotFound"

\* Job.get
JobGet(tbl, serial, key, fault) ==
    LET thrown == IF fault = 1 \/ ~IsIntText(key) THEN "DbError"
                  ELSE IF JobsWithId(tbl, key) = <<>> THEN "NotFound"
                  ELSE "none"
    IN  IF CatchAsNotFound(thrown) # "none"
        THEN Outcome(CatchAsNotFound(thrown), <<>>, 1, tbl, serial)
        ELSE Outcome("none", <<JobRecord(JobsWithId(tbl, key)[1])>>, 1, tbl, serial)

\* The second argument of sqlForPartialUpdate as Job.update passes it.
JobJsToSql == NoTable

\* Job.update: the builder runs before the try block.
JobUpdate(tbl, serial, key, data, fault) ==
    LET built == sqlForPartialUpdate(data, JobJsToSql)
        params == Append(built.values, Str(key))
        thrown == IF fault = 1 \/ ~IsIntText(key) \/ ~KnownColumns(built.clauses, JobColumns)
                  THEN "DbError"
                  ELSE IF JobsWithId(tbl, key) = <<>> THEN "NotFound"
                  ELSE "none"
        after == UpdateRows(tbl, built.clauses, params, "id", Num(ParseInt(key)))
    IN  IF built.err # "none" THEN Outcome(built.err, <<>>, 0, tbl, serial)
        ELSE IF CatchAsNotFound(thrown) # "none"
        THEN Outcome(CatchAsNotFound(thrown), <<>>, 1, tbl, serial)
        ELSE Outcome("none", <<JobRecord(JobsWithId(after, key)[1])>>, 1, after, serial)

\* Mutant: the test of the deleted row left out.
JobRemove_NoRowTest(tbl, serial, key, fault) ==
    LET thrown == IF fault = 1 \/ ~IsIntText(key) THEN "DbError" ELSE "none"
        Keep(r) == ~SqlEq(r["id"], Num(ParseInt(key)))
    IN  IF CatchAsNotFound(thrown) # "none"
        THEN Outcome(CatchAsNotFound(thrown), <<>>, 1, tbl, serial)
        ELSE Outcome("none", <<>>, 1, SelectSeq(tbl, Keep), serial)

\* Job.remove
JobRemove(tbl, serial, key, fault) ==
    LET thrown == IF fault = 1 \/ ~IsIntText(key) THEN "DbError"
                  ELSE IF JobsWithId(tbl, key) = <<>> THEN "NotFound"
                  ELSE "none"
        Keep(r) == ~SqlEq(r["id"], Num(ParseInt(key)))
    IN  IF CatchAsNotFound(thrown) # "none"
        THEN Outcome(CatchAsNotFound(thrown), <<>>, 1, tbl, serial)
        ELSE Outcome("none", <<>>, 1, SelectSeq(tbl, Keep), serial)

(***************************************************************************)
(* The filter predicate builders and findAll.                              *)
(***************************************************************************)
\* The text database functions over the strings of the model: LOWER maps
\* the mixed-case ones, every other string is its own lower case.
Lower(x) ==
    CASE x = "%DE%" -> "%de%"
      [] x = "%AC%" -> "%ac%"
      [] x = "Acme" -> "acme"
      [] x = "Bolt" -> "bolt"
      [] OTHER -> x

\* text LIKE '%<inner>%': inner occurs in text.
Like(text, pattern) ==
    \E i \in 1..(Len(text) + 1), k \in 0..Len(text) :
        pattern = "%" \o SubSeq(text, i, k) \o "%"

\* The collation of the strings ORDER BY sorts.
Collation == <<"Acme", "Bolt", "dev", "qa">>
Rank(x) == CHOOSE i \in 1..Len(Collation) : Collation[i] = x

\* ORDER BY col: rows in ascending order of col, ties in table order.
RECURSIVE OrderBy(_, _)
OrderBy(rows, col) ==
    IF rows = <<>> THEN <<>>
    ELSE LET least == CHOOSE i \in 1..Len(rows) :
                         /\ \A k \in 1..Len(rows) : Rank(rows[i][col].s) <= Rank(rows[k][col].s)
                         /\ \A k \in 1..(i - 1) : Rank(rows[k][col].s) > Rank(rows[i][col].s)
             rest == [k \in 1..(Len(rows) - 1) |-> IF k < least THEN rows[k] ELSE rows[k + 1]]
         IN  <<rows[least]>> \o OrderBy(rest, col)

\* sqlStatements.push(`<lhs> $${idxCounter}`) after idxCounter++
StatementText(kind, idxCounter) ==
    CASE kind = "name" -> "LOWER(name) LIKE LOWER($" \o ToString(idxCounter) \o ")"
      [] kind = "minEmployees" -> "num_employees >= $" \o ToString(idxCounter)
      [] kind = "maxEmployees" -> "num_employees <= $" \o ToString(idxCounter)
      [] kind = "title" -> "LOWER(title) LIKE LOWER($" \o ToString(idxCounter) \o ")"
      [] kind = "minSalary" -> "salary >= $" \o ToString(idxCounter)
      [] kind = "hasEquity" -> "equity > $" \o ToString(idxCounter)
      [] kind = "company_handle" -> "company_handle = $" \o ToString(idxCounter)

\* The row satisfies one pushed statement, params being sqlValues.
Satisfies(row, pred, params) ==
    CASE pred.kind = "name" -> Like(Lower(row["name"].s), Lower(params[pred.param].s))
      [] pred.kind = "minEmployees" -> SqlGe(row["num_employees"], params[pred.param])
      [] pred.kind = "maxEmployees" -> SqlGe(params[pred.param], row["num_employees"])
      [] pred.kind = "title" -> Like(Lower(row["title"].s), Lower(params[pred.param].s))
      [] pred.kind = "minSalary" -> SqlGe(row["salary"], params[pred.param])
      [] pred.kind = "hasEquity" -> SqlGt(row["equity"], params[pred.param])
      [] pred.kind = "company_handle" -> SqlEq(row["company_handle"], params[pred.param])

\* `%${value}%`
Wrapped(v) == Str("%" \o v.s \o "%")

\* Mutant: every statement bound to the parameter of its block, taken or not.
Pushed_IndexOfBlock(steps) ==
    LET Taken(st) == st.on
        taken == SelectSeq(steps, Taken)
        BlockOf(i) == CHOOSE b \in 1..Len(steps) : steps[b].kind = taken[i].kind
    IN  [preds |-> [i \in 1..Len(taken) |-> [kind |-> taken[i].kind, param |-> BlockOf(i)]],
         sqlStatements |-> [i \in 1..Len(taken) |-> StatementText(taken[i].kind, BlockOf(i))],
         sqlValues |-> [i \in 1..Len(taken) |-> taken[i].val]]

\* What the `if` blocks of a builder push: steps is the sequence of blocks,
\* each with its condition, its statement kind and its value; idxCounter of
\* a pushed statement is the number of blocks taken so far.
Pushed(steps) ==
    LET Taken(st) == st.on
        taken == SelectSeq(steps, Taken)
    IN  [preds |-> [i \in 1..Len(taken) |-> [kind |-> taken[i].kind, param |-> i]],
         sqlStatements |-> [i \in 1..Len(taken) |-> StatementText(taken[i].kind, i)],
         sqlValues |-> [i \in 1..Len(taken) |-> taken[i].val]]

Step(on, kind, val) == [on |-> on, kind |-> kind, val |-> val]

\* Mutant: the range check left out.
Filtered_NoRangeCheck(queryFilters, pushed) ==
    [err |-> "none",
     sqlString |-> IF Len(pushed.sqlStatements) > 0
                   THEN "WHERE " \o Join(pushed.sqlStatements, " AND ")
                   ELSE "",
     preds |-> pushed.preds,
     sqlStatements |-> pushed.sqlStatements,
     sqlValues |-> pushed.sqlValues]

\* Mutant: a key the builders do not know is refused.
Filtered_StrictKeys(queryFilters, pushed) ==
    IF \/ JsGreater(Prop(queryFilters, "minEmployees"), Prop(queryFilters, "maxEmployees"))
       \/ \E i \in 1..Len(queryFilters) : queryFilters[i].k \in {"nam", "employeecount"}
    THEN [err |-> "BadRequest", sqlString |-> "", preds |-> <<>>, sqlStatements |-> <<>>,
          sqlValues |-> <<>>]
    ELSE Filtered_NoRangeCheck(queryFilters, pushed)

\* The end of both builders: the range check, then the WHERE text.
Filtered(queryFilters, pushed) ==
    IF JsGreater(Prop(queryFilters, "minEmployees"), Prop(queryFilters, "maxEmployees"))
    THEN [err |-> "BadRequest", sqlString |-> "", preds |-> <<>>, sqlStatements |-> <<>>,
          sqlValues |-> <<>>]
    ELSE [err |-> "none",
          sqlString |-> IF Len(pushed.sqlStatements) > 0
                        THEN "WHERE " \o Join(pushed.sqlStatements, " AND ")
                        ELSE "",
          preds |-> pushed.preds,
          sqlStatements |-> pushed.sqlStatements,
          sqlValues |-> pushed.sqlValues]

\* Mutant: minEmployees and maxEmployees taken when they are given, 0 included.
CompanyHandleFiltering_GivenBounds(queryFilters) ==
    Filtered(queryFilters,
             Pushed(<<Step(Truthy(Prop(queryFilters, "name")), "name",
                           Wrapped(Prop(queryFilters, "name"))),
                      Step(Prop(queryFilters, "minEmployees").t = "number", "minEmployees",
                           Prop(queryFilters, "minEmployees")),
                      Step(Prop(queryFilters, "maxEmployees").t = "number", "maxEmployees",
                           Prop(queryFilters, "maxEmployees"))>>))

\* handleFiltering of models/company.js
CompanyHandleFiltering(queryFilters) ==
    Filtered(queryFilters,
             Pushed(<<Step(Truthy(Prop(queryFilters, "name")), "name",
                           Wrapped(Prop(queryFilters, "name"))),
                      Step(Truthy(Prop(queryFilters, "minEmployees")), "minEmployees",
                           Prop(queryFilters, "minEmployees")),
                      Step(Truthy(Prop(queryFilters, "maxEmployees")), "maxEmployees",
                           Prop(queryFilters, "maxEmployees"))>>))

\* Mutant: hasEquity tested for truthiness instead of === "true".
JobHandleFiltering_TruthyEquity(queryFilters) ==
    Filtered(queryFilters,
             Pushed(<<Step(Truthy(Prop(queryFilters, "title")), "title",
                           Wrapped(Prop(queryFilters, "title"))),
                      Step(Truthy(Prop(queryFilters, "minSalary")), "minSalary",
                           Prop(queryFilters, "minSalary")),
                      Step(Truthy(Prop(queryFilters, "hasEquity")), "hasEquity", Num(0)),
                      Step(Truthy(Prop(queryFilters, "company_handle")), "company_handle",
                           Prop(queryFilters, "company_handle"))>>))

\* handleFiltering of models/job.js
JobHandleFiltering(queryFilters) ==
    Filtered(queryFilters,
             Pushed(<<Step(Truthy(Prop(queryFilters, "title")), "title",
                           Wrapped(Prop(queryFilters, "title"))),
                      Step(Truthy(Prop(queryFilters, "minSalary")), "minSalary",
                           Prop(queryFilters, "minSalary")),
                      Step(StrictEq(Prop(queryFilters, "hasEquity"), Str("true")), "hasEquity",
                           Num(0)),
                      Step(Truthy(Prop(queryFilters, "company_handle")), "company_handle",
                           Prop(queryFilters, "company_handle"))>>))

\* SELECT ... FROM tbl <sqlString> ORDER BY col
SelectWhere(tbl, built, col) ==
    LET Match(r) == \A i \in 1..Len(built.preds) : Satisfies(r, built.preds[i], built.sqlValues)
    IN  OrderBy(SelectSeq(tbl, Match), col)

FoundAll(built, fault, tbl, serial, rows) ==
    IF built.err # "none" THEN Outcome(built.err, <<>>, 0, tbl, serial)
    ELSE IF fault = 1 THEN Outcome("DbError", <<>>, 1, tbl, serial)
    ELSE Outcome("none", rows, 1, tbl, serial)

\* Company.findAll
CompanyFindAll(tbl, queryFilters, fault) ==
    LET built == CompanyHandleFiltering(queryFilters)
        found == SelectWhere(tbl, built, "name")
    IN  FoundAll(built, fault, tbl, 0, [i \in 1..Len(found) |-> CompanyRecord(found[i])])

\* Job.findAll
JobFindAll(tbl, serial, queryFilters, fault) ==
    LET built == JobHandleFiltering(queryFilters)
        found == SelectWhere(tbl, built, "title")
    IN  FoundAll(built, fault, tbl, serial, [i \in 1..Len(found) |-> JobRecord(found[i])])

(***************************************************************************)
(* Inputs of the methods.                                                  *)
(***************************************************************************)
Handles == {"c1", "c2"}
HandleKeys == Handles \cup {"nope"}
CompanyInputs ==
    [handle : {Str(h) : h \in Handles}, name : {Str("Acme")},
     description : {Str("Desc")}, numEmployees : {Num(1), Num(2)}, logoUrl : {Null}]
CompanyUpdateInputs ==
    ObjectsOver(<<"name", "description", "numEmployees", "logoUrl">>,
                [k \in {"name", "description", "numEmployees", "logoUrl"} |->
                    CASE k = "name" -> {Str("Bolt")}
                      [] k = "description" -> {Str("Desc")}
                      [] k = "numEmployees" -> {Num(2)}
                      [] k = "logoUrl" -> {Null}])

JobInputs ==
    [title : {Str("dev")}, salary : {Null, Num(100)}, equity : {Null, Num(0), Num(5)},
     company_handle : {Str("c1")}]
JobUpdateInputs ==
    ObjectsOver(<<"title", "salary", "equity", "company_handle">>,
                [k \in {"title", "salary", "equity", "company_handle"} |->
                    CASE k = "title" -> {Str("qa")}
                      [] k = "salary" -> {Null}
                      [] k = "equity" -> {Num(0)}
                      [] k = "company_handle" -> {Str("c2")}])
JobKeys == {ToString(i) : i \in 1..(MaxId + 1)} \cup {"nope"}

\* The statement of a call that faults: 0 is none.
Faults(n) == 0..n

Idle == [op |-> "idle", key |-> "", err |-> "none"]

Init ==
    /\ companies = <<>>
    /\ jobs = <<>>
    /\ nextId = 1
    /\ res = Idle

(***************************************************************************)
(* The methods as the actions of a server handling one call at a time.     *)
(* res keeps the call being answered: the method, its key and the error    *)
(* it threw; it is Idle between calls.                                     *)
(***************************************************************************)
Called(op, key, out) == [op |-> op, key |-> key, err |-> out.err]

DoCompanyCreate ==
    /\ res = Idle
    /\ \E c \in CompanyInputs, fault \in Faults(2) :
        LET out == CompanyCreate(companies, c, fault)
        IN  /\ companies' = out.tbl
            /\ res' = Called("Company.create", c.handle.s, out)
            /\ UNCHANGED <<jobs, nextId>>

DoCompanyGet ==
    /\ res = Idle
    /\ \E handle \in HandleKeys, fault \in Faults(1) :
        LET out == CompanyGet(companies, Str(handle), fault)
        IN  /\ companies' = out.tbl
            /\ res' = Called("Company.get", handle, out)
            /\ UNCHANGED <<jobs, nextId>>

DoCompanyUpdate ==
    /\ res = Idle
    /\ \E handle \in HandleKeys, data \in CompanyUpdateInputs, fault \in Faults(1) :
        LET out == CompanyUpdate(companies, Str(handle), data, fault)
        IN  /\ companies' = out.tbl
            /\ res' = Called("Company.update", handle, out)
            /\ UNCHANGED <<jobs, nextId>>

DoCompanyRemove ==
    /\ res = Idle
    /\ \E handle \in HandleKeys, fault \in Faults(1) :
        LET out == CompanyRemove(companies, Str(handle), fault)
        IN  /\ companies' = out.tbl
            /\ res' = Called("Company.remove", handle, out)
            /\ UNCHANGED <<jobs, nextId>>

DoJobCreate ==
    /\ res = Idle
    /\ nextId <= MaxId
    /\ \E j \in JobInputs, fault \in Faults(2) :
        LET out == JobCreate(jobs, nextId, j, fault)
        IN  /\ jobs' = out.tbl
            /\ nextId' = out.serial
            /\ res' = Called("Job.create", "", out)
            /\ UNCHANGED companies

DoJobGet ==
    /\ res = Idle
    /\ \E key \in JobKeys, fault \in Faults(1) :
        LET out == JobGet(jobs, nextId, key, fault)
        IN  /\ jobs' = out.tbl
            /\ nextId' = out.serial
            /\ res' = Called("Job.get", key, out)
            /\ UNCHANGED companies

DoJobUpdate ==
    /\ res = Idle
    /\ \E key \in JobKeys, data \in JobUpdateInputs, fault \in Faults(1) :
        LET out == JobUpdate(jobs, nextId, key, data, fault)
        IN  /\ jobs' = out.tbl
            /\ nextId' = out.serial
            /\ res' = Called("Job.update", key, out)
            /\ UNCHANGED companies

DoJobRemove ==
    /\ res = Idle
    /\ \E key \in JobKeys, fault \in Faults(1) :
        LET out == JobRemove(jobs, nextId, key, fault)
        IN  /\ jobs' = out.tbl
            /\ nextId' = out.serial
            /\ res' = Called("Job.remove", key, out)
            /\ UNCHANGED companies

\* The caller takes the outcome; the server is ready for the next call.
Return ==
    /\ res.op \notin {"idle", "call"}
    /\ res' = Idle
    /\ UNCHANGED <<companies, jobs, nextId>>

Next ==
    \/ DoCompanyCreate
    \/ DoCompanyGet
    \/ DoCompanyUpdate
    \/ DoCompanyRemove
    \/ DoJobCreate
    \/ DoJobGet
    \/ DoJobUpdate
    \/ DoJobRemove
    \/ Return

Spec == Init /\ [][Next]_vars

(***************************************************************************)
(* findAll on its own: the tables are ones the create methods can have     *)
(* built, the filter of the call is drawn initially, and the call leaves   *)
(* the filter, what the builder made of it and the rows returned in res.   *)
(***************************************************************************)
\* The filter objects list their keys in another order than the builders
\* read them.
JobFilterValues ==
    [k \in {"title", "minSalary", "hasEquity", "company_handle"} |->
        CASE k = "title" -> {Str(""), Str("DE"), Str("qa")}
          [] k = "minSalary" -> {Num(0), Num(100), Num(200)}
          [] k = "hasEquity" -> {Str("true"), Str("false"), Bool(TRUE), Bool(FALSE)}
          [] k = "company_handle" -> {Str("c1"), Str("c2")}]
RangeValues == [k \in {"minEmployees", "maxEmployees"} |-> {Num(0), Num(1), Num(2)}]
JobFilterFields ==
    ObjectsOver(<<"company_handle", "hasEquity", "minSalary", "title">>, JobFilterValues)
    \cup {range \o o : range \in ObjectsOver(<<"maxEmployees", "minEmployees">>, RangeValues),
                       o \in {<<>>, <<Entry("hasEquity", Str("true"))>>,
                              <<Entry("title", Str("DE"))>>}}
CompanyFilterFields ==
    ObjectsOver(<<"maxEmployees", "minEmployees", "name">>,
                [k \in {"maxEmployees", "minEmployees", "name"} |->
                    IF k = "name" THEN {Str(""), Str("AC"), Str("zz")} ELSE RangeValues[k]])

\* Query parameters neither builder knows, as in /jobs?nam=blah&employeecount=5
UnknownParameters == {<<>>, <<Entry("nam", Str("blah")), Entry("employeecount", Num(5))>>}

\* Filters whose keys hold a falsy value (0, "", null or undefined) or a
\* value that passes the test of the builder.
FalsyValues == {Num(0), Str(""), Null, Undefined}
JobFalsyFilters ==
    UNION {ObjectsOver(<<"title", "minSalary", "hasEquity", "company_handle">>,
                       [k \in {"title", "minSalary", "hasEquity", "company_handle"} |->
                           {falsy} \cup
                           CASE k = "title" -> {Str("DE")}
                             [] k = "minSalary" -> {Num(100)}
                             [] k = "hasEquity" -> {Str("true")}
                             [] k = "company_handle" -> {Str("c1")}]) :
              falsy \in FalsyValues}
CompanyFalsyFilters ==
    UNION {ObjectsOver(<<"name", "minEmployees", "maxEmployees">>,
                       [k \in {"name", "minEmployees", "maxEmployees"} |->
                           {falsy} \cup
                           CASE k = "name" -> {Str("AC")}
                             [] k = "minEmployees" -> {Num(1)}
                             [] k = "maxEmployees" -> {Num(2)}]) :
              falsy \in FalsyValues}

JobFilterInputs ==
    {u \o o : u \in UnknownParameters, o \in JobFilterFields} \cup JobFalsyFilters
CompanyFilterInputs ==
    {u \o o : u \in UnknownParameters \cup {<<Entry("title", Str("qa"))>>},
              o \in CompanyFilterFields}
    \cup CompanyFalsyFilters

\* The jobs tables (with their serial) after at most n successful creates.
RECURSIVE JobTables(_)
JobTables(n) ==
    IF n = 0 THEN {<<<<>>, 1>>}
    ELSE JobTables(n - 1) \cup
         {<<JobCreate(t[1], t[2], j, 0).tbl, JobCreate(t[1], t[2], j, 0).serial>> :
             t \in JobTables(n - 1), j \in JobInputs}

RECURSIVE CompanyTables(_)
CompanyTables(n) ==
    IF n = 0 THEN {<<>>}
    ELSE CompanyTables(n - 1) \cup
         {CompanyCreate(t, c, 0).tbl : t \in CompanyTables(n - 1), c \in CompanyInputs}

Asked(op, queryFilters, fault) ==
    [op |-> "call", key |-> op, err |-> "none", filter |-> queryFilters, fault |-> fault]

InitFilter ==
    \/ /\ companies = <<>>
       /\ \E t \in JobTables(MaxId) : jobs = t[1] /\ nextId = t[2]
       /\ res \in {Asked("Job.findAll", f, fault) : f \in JobFilterInputs, fault \in Faults(1)}
    \/ /\ companies \in CompanyTables(Cardinality(Handles))
       /\ jobs = <<>>
       /\ nextId = 1
       /\ res \in {Asked("Company.findAll", f, fault) : f \in CompanyFilterInputs, fault \in Faults(1)}

Answered(op, queryFilters, built, out) ==
    [op |-> op, key |-> "", err |-> out.err, filter |-> queryFilters, built |-> built,
     queries |-> out.queries, ret |-> out.ret]

DoJobFindAll ==
    /\ res.op = "call"
    /\ res.key = "Job.findAll"
    /\ res' = Answered("Job.findAll", res.filter, JobHandleFiltering(res.filter),
                       JobFindAll(jobs, nextId, res.filter, res.fault))
    /\ jobs' = JobFindAll(jobs, nextId, res.filter, res.fault).tbl
    /\ nextId' = JobFindAll(jobs, nextId, res.filter, res.fault).serial
    /\ UNCHANGED companies

DoCompanyFindAll ==
    /\ res.op = "call"
    /\ res.key = "Company.findAll"
    /\ res' = Answered("Company.findAll", res.filter, CompanyHandleFiltering(res.filter),
                       CompanyFindAll(companies, res.filter, res.fault))
    /\ companies' = CompanyFindAll(companies, res.filter, res.fault).tbl
    /\ UNCHANGED <<jobs, nextId>>

NextFilter == DoJobFindAll \/ DoCompanyFindAll

SpecFilter == InitFilter /\ [][NextFilter]_vars

(***************************************************************************)
(* The builder on its own: the arguments of a call are drawn initially,    *)
(* the call itself leaves them and its outcome in res.                     *)
(***************************************************************************)
InitSql ==
    /\ companies = <<>>
    /\ jobs = <<>>
    /\ nextId = 1
    /\ res \in {[op |-> "call", key |-> "sqlForPartialUpdate", err |-> "none",
                  data |-> data, jsToSql |-> jsToSql] :
                    data \in SqlDataInputs, jsToSql \in SqlTableInputs}

SqlCall ==
    /\ res.op = "call"
    /\ res' = [op |-> "sqlForPartialUpdate", key |-> "",
               err |-> sqlForPartialUpdate(res.data, res.jsToSql).err,
               data |-> res.data, jsToSql |-> res.jsToSql,
               out |-> sqlForPartialUpdate(res.data, res.jsToSql)]
    /\ UNCHANGED <<companies, jobs, nextId>>

SpecSql == InitSql /\ [][SqlCall]_vars

(***************************************************************************)
(* The route layer, after sections 4.5, 6 and 7 of the specification: the  *)
(* role check, the validation of the body, the call of the data access     *)
(* method and the status of the response.  One request is drawn initially  *)
(* on tables the create methods can have built; its handler leaves the     *)
(* request and the status in res.                                          *)
(***************************************************************************)
Roles == {"anon", "user", "admin"}

\* Mutant: any authenticated caller passes the role check.
EnsureAdmin_LoggedIn(role) == role # "anon"

\* The role check of the write endpoints.
EnsureAdmin(role) == role = "admin"

\* BadRequest -> 400, Unauthorized -> 401, NotFound -> 404, any other
\* fault -> 500; ok is the status of success.
StatusOf(err, ok) ==
    CASE err = "none" -> ok
      [] err = "BadRequest" -> 400
      [] err = "Unauthorized" -> 401
      [] err = "NotFound" -> 404
      [] OTHER -> 500

\* The schemas of the bodies: the fields of a new record, all of the known
\* ones and a string where a string is due; of an update, known fields other
\* than the identifier.
HasOnlyKeys(body, keys) == \A i \in 1..Len(body) : body[i].k \in keys
IsText(body, k) == HasKey(body, k) => Prop(body, k).t = "string"
ValidNewJob(body) ==
    /\ HasOnlyKeys(body, {"title", "salary", "equity", "company_handle"})
    /\ HasKey(body, "title") /\ HasKey(body, "company_handle")
    /\ IsText(body, "title")
ValidJobUpdate(body) ==
    /\ HasOnlyKeys(body, {"title", "salary", "equity", "company_handle"})
    /\ IsText(body, "title")
ValidNewCompany(body) ==
    /\ HasOnlyKeys(body, {"handle", "name", "description", "numEmployees", "logoUrl"})
    /\ HasKey(body, "handle") /\ HasKey(body, "name")
    /\ IsText(body, "name")
ValidCompanyUpdate(body) ==
    /\ HasOnlyKeys(body, {"name", "description", "numEmployees", "logoUrl"})
    /\ IsText(body, "name")

\* The fields of a body as the create methods destructure them.
AsJob(body) ==
    [title |-> Prop(body, "title"), salary |-> Prop(body, "salary"),
     equity |-> Prop(body, "equity"), company_handle |-> Prop(body, "company_handle")]
AsCompany(body) ==
    [handle |-> Prop(body, "handle"), name |-> Prop(body, "name"),
     description |-> Prop(body, "description"),
     numEmployees |-> Prop(body, "numEmployees"), logoUrl |-> Prop(body, "logoUrl")]

\* What a write handler answers: the role check first, then the schema,
\* then the method.
Guarded(role, valid, out, ok, tbl, serial) ==
    IF ~EnsureAdmin(role) THEN [status |-> 401, tbl |-> tbl, serial |-> serial]
    ELSE IF ~valid THEN [status |-> 400, tbl |-> tbl, serial |-> serial]
    ELSE [status |-> StatusOf(out.err, ok), tbl |-> out.tbl, serial |-> out.serial]

\* The bodies of the requests.
JobBodies ==
    {<<Entry("title", j.title), Entry("salary", j.salary), Entry("equity", j.equity),
       Entry("company_handle", j.company_handle)>> : j \in JobInputs}
    \cup {<<>>, <<Entry("id", Str("1337"))>>, <<Entry("title", Num(123))>>,
          <<Entry("title", Str("qa"))>>}
CompanyBodies ==
    {<<Entry("handle", c.handle), Entry("name", c.name), Entry("description", c.description),
       Entry("numEmployees", c.numEmployees), Entry("logoUrl", c.logoUrl)>> :
          c \in CompanyInputs}
    \cup {<<>>, <<Entry("handle", Str("c9"))>>, <<Entry("name", Num(123))>>,
          <<Entry("name", Str("Bolt"))>>}

WriteEndpoints ==
    {"POST /jobs", "PATCH /jobs/:id", "DELETE /jobs/:id",
     "POST /companies", "PATCH /companies/:handle", "DELETE /companies/:handle"}
ReadEndpoints == {"GET /jobs", "GET /jobs/:id", "GET /companies", "GET /companies/:handle"}

Request(endpoint, role, key, body, fault) ==
    [op |-> "call", key |-> endpoint, err |-> "none", role |-> role, id |-> key,
     body |-> body, fault |-> fault]

InitRoute ==
    \/ /\ companies = <<>>
       /\ \E t \in JobTables(MaxId) : jobs = t[1] /\ nextId = t[2]
       /\ res \in {Request(e, role, key, body, fault) :
                      e \in {"POST /jobs", "PATCH /jobs/:id", "DELETE /jobs/:id",
                             "GET /jobs", "GET /jobs/:id"},
                      role \in Roles, key \in JobKeys, body \in JobBodies,
                      fault \in Faults(1)}
    \/ /\ companies \in CompanyTables(Cardinality(Handles))
       /\ jobs = <<>>
       /\ nextId = 1
       /\ res \in {Request(e, role, key, body, fault) :
                      e \in {"POST /companies", "PATCH /companies/:handle",
                             "DELETE /companies/:handle", "GET /companies",
                             "GET /companies/:handle"},
                      role \in Roles, key \in HandleKeys, body \in CompanyBodies,
                      fault \in Faults(1)}

Responded(endpoint, status) ==
    [op |-> endpoint, key |-> "", err |-> "none", role |-> res.role, id |-> res.id,
     body |-> res.body, fault |-> res.fault, status |-> status]

Handling(endpoint) == res.op = "call" /\ res.key = endpoint

\* A write handler of /jobs answers and leaves the jobs table of its answer.
AnswerJobs(endpoint, answer) ==
    /\ res' = Responded(endpoint, answer.status)
    /\ jobs' = answer.tbl
    /\ nextId' = answer.serial
    /\ UNCHANGED companies

AnswerCompanies(endpoint, answer) ==
    /\ res' = Responded(endpoint, answer.status)
    /\ companies' = answer.tbl
    /\ UNCHANGED <<jobs, nextId>>

PostJobs ==
    /\ Handling("POST /jobs")
    /\ AnswerJobs("POST /jobs",
                  Guarded(res.role, ValidNewJob(res.body),
                          JobCreate(jobs, nextId, AsJob(res.body), res.fault), 201,
                          jobs, nextId))

PatchJob ==
    /\ Handling("PATCH /jobs/:id")
    /\ AnswerJobs("PATCH /jobs/:id",
                  Guarded(res.role, ValidJobUpdate(res.body),
                          JobUpdate(jobs, nextId, res.id, res.body, res.fault), 200,
                          jobs, nextId))

DeleteJob ==
    /\ Handling("DELETE /jobs/:id")
    /\ AnswerJobs("DELETE /jobs/:id",
                  Guarded(res.role, TRUE, JobRemove(jobs, nextId, res.id, res.fault), 200,
                          jobs, nextId))

GetJobs ==
    /\ Handling("GET /jobs")
    /\ res' = Responded("GET /jobs", StatusOf(JobFindAll(jobs, nextId, <<>>, res.fault).err, 200))
    /\ UNCHANGED <<companies, jobs, nextId>>

GetJob ==
    /\ Handling("GET /jobs/:id")
    /\ res' = Responded("GET /jobs/:id",
                        StatusOf(JobGet(jobs, nextId, res.id, res.fault).err, 200))
    /\ UNCHANGED <<companies, jobs, nextId>>

PostCompanies ==
    /\ Handling("POST /companies")
    /\ AnswerCompanies("POST /companies",
                       Guarded(res.role, ValidNewCompany(res.body),
                               CompanyCreate(companies, AsCompany(res.body), res.fault), 201,
                               companies, 0))

PatchCompany ==
    /\ Handling("PATCH /companies/:handle")
    /\ AnswerCompanies("PATCH /companies/:handle",
                       Guarded(res.role, ValidCompanyUpdate(res.body),
                               CompanyUpdate(companies, Str(res.id), res.body, res.fault), 200,
                               companies, 0))

DeleteCompany ==
    /\ Handling("DELETE /companies/:handle")
    /\ AnswerCompanies("DELETE /companies/:handle",
                       Guarded(res.role, TRUE,
                               CompanyRemove(companies, Str(res.id), res.fault), 200,
                               companies, 0))

GetCompanies ==
    /\ Handling("GET /companies")
    /\ res' = Responded("GET /companies",
                        StatusOf(CompanyFindAll(companies, <<>>, res.fault).err, 200))
    /\ UNCHANGED <<companies, jobs, nextId>>

GetCompany ==
    /\ Handling("GET /companies/:handle")
    /\ res' = Responded("GET /companies/:handle",
                        StatusOf(CompanyGet(companies, Str(res.id), res.fault).err, 200))
    /\ UNCHANGED <<companies, jobs, nextId>>

NextRoute ==
    \/ PostJobs
    \/ PatchJob
    \/ DeleteJob
    \/ GetJobs
    \/ GetJob
    \/ PostCompanies
    \/ PatchCompany
    \/ DeleteCompany
    \/ GetCompanies
    \/ GetCompany

SpecRoute == InitRoute /\ [][NextRoute]_vars

(***************************************************************************)
(* Job.create under concurrent requests.  Each call is at the start, or    *)
(* suspended between the statement of dupeCheck and the INSERT, or done;   *)
(* the database runs one statement at a time.  res keeps the calls, and    *)
(* whether a dupeCheck ran while another call was suspended before its     *)
(* INSERT (overlap).                                                       *)
(***************************************************************************)
Callers == 1..MaxCallers

InitRace ==
    /\ companies = <<>>
    /\ \E t \in JobTables(1) : jobs = t[1] /\ nextId = t[2]
    /\ res \in {[op |-> "calls", key |-> "", err |-> "none", overlap |-> FALSE,
                  calls |-> [p \in Callers |-> [pc |-> "dupeCheck", j |-> js[p], err |-> "none"]]] :
                    js \in [Callers -> JobInputs]}

Moved(p, pc, err) ==
    [res.calls EXCEPT ![p] = [pc |-> pc, j |-> res.calls[p].j, err |-> err]]

\* await this.dupeCheck(...): the SELECT runs on the table as it is now.
DupeCheckStep(p) ==
    /\ res.op = "calls"
    /\ res.calls[p].pc = "dupeCheck"
    /\ \E fault \in Faults(1) :
          res' = [res EXCEPT
                    !.calls = Moved(p,
                                    IF fault = 1 \/ Len(DupeRows(jobs, res.calls[p].j)) # 0
                                    THEN "done" ELSE "insert",
                                    IF fault = 1 THEN "DbError"
                                    ELSE IF Len(DupeRows(jobs, res.calls[p].j)) # 0
                                    THEN "BadRequest" ELSE "none"),
                    !.overlap = res.overlap \/ \E q \in Callers \ {p} : res.calls[q].pc = "insert"]
    /\ UNCHANGED <<companies, jobs, nextId>>

\* await db.query(`INSERT INTO jobs ...`), after the dupeCheck passed.
InsertStep(p) ==
    /\ res.op = "calls"
    /\ res.calls[p].pc = "insert"
    /\ \E fault \in Faults(1) :
          IF fault = 1
          THEN /\ res' = [res EXCEPT !.calls = Moved(p, "done", "DbError")]
               /\ UNCHANGED <<jobs, nextId>>
          ELSE /\ res' = [res EXCEPT !.calls = Moved(p, "done", "none")]
               /\ jobs' = Append(jobs, JobRow(nextId, res.calls[p].j))
               /\ nextId' = nextId + 1
    /\ UNCHANGED companies

NextRace ==
    \/ \E p \in Callers : DupeCheckStep(p)
    \/ \E p \in Callers : InsertStep(p)

SpecRace == InitRace /\ [][NextRace]_vars

\* The column the claim names for the i-th key of a call.
ExpectedColumn(data, jsToSql, i) ==
    IF HasKey(jsToSql.obj, data[i].k) THEN Prop(jsToSql.obj, data[i].k).s ELSE data[i].k

\* C1: for a non-empty dataToUpdate and a translation table, setCols is one
\* clause "<column>"=$<n> per key, in key order, n = 1..k, the column being
\* jsToSql[key] when the table has the key and the key otherwise, joined by
\* ", "; values are the mapping's values in key order, null included.
C1_SetColsPerKey ==
    (res.op = "sqlForPartialUpdate" /\ Len(res.data) > 0 /\ res.jsToSql.def) =>
        /\ res.out.err = "none"
        /\ Len(res.out.cols) = Len(res.data)
        /\ \A i \in 1..Len(res.data) :
              /\ res.out.cols[i] =
                     "\"" \o ExpectedColumn(res.data, res.jsToSql, i) \o "\"=$" \o ToString(i)
              /\ res.out.clauses[i] =
                     [col |-> ExpectedColumn(res.data, res.jsToSql, i), param |-> i]
              /\ res.out.values[i] = res.data[i].v
        /\ Len(res.out.values) = Len(res.data)
        /\ res.out.setCols = Join(res.out.cols, ", ")

\* A call with two keys, the first translated, the second not, writing a null.
C1_Witness ==
    /\ res.op = "sqlForPartialUpdate"
    /\ res.jsToSql.def
    /\ Len(res.data) = 2
    /\ HasKey(res.jsToSql.obj, res.data[1].k)
    /\ ~HasKey(res.jsToSql.obj, res.data[2].k)
    /\ res.data[2].v = Null
    /\ res.out.setCols = "\"first_name\"=$1, \"age\"=$2"


(***************************************************************************)
(* Properties of the methods.  The ones over out-of-call states quantify   *)
(* over every input of a method in every reachable state of the tables.    *)
(***************************************************************************)
JobExists(key) == IsIntText(key) /\ JobsWithId(jobs, key) # <<>>
CompanyExists(handle) == CompaniesWithHandle(companies, Str(handle)) # <<>>

\* C2: a partial update with an empty mapping fails with BadRequest:
\* sqlForPartialUpdate({}, t) for every t, and Job.update(id, {}) and
\* Company.update(handle, {}) for every key, stored or not, whether or not the
\* database is reachable, with no statement issued and the tables unchanged.
C2_EmptyUpdateBadRequest ==
    res = Idle =>
          /\ \A t \in SqlTableInputs : sqlForPartialUpdate(<<>>, t).err = "BadRequest"
          /\ \A key \in JobKeys, fault \in Faults(1) :
                LET out == JobUpdate(jobs, nextId, key, <<>>, fault)
                IN  out.err = "BadRequest" /\ out.queries = 0 /\ out.tbl = jobs /\ out.serial = nextId
          /\ \A handle \in HandleKeys, fault \in Faults(1) :
                LET out == CompanyUpdate(companies, Str(handle), <<>>, fault)
                IN  out.err = "BadRequest" /\ out.queries = 0 /\ out.tbl = companies

\* Job.update of a stored job answered with BadRequest, one job stored beside it.
C2_Witness ==
    /\ res.op = "Job.update"
    /\ res.err = "BadRequest"
    /\ JobExists(res.key)
    /\ Len(jobs) = 2
    /\ Len(companies) = 1

\* The row a partial update of row with data is to leave.
UpdatedJobRow(row, data) ==
    [c \in JobColumns |-> IF HasKey(data, c) THEN Prop(data, c) ELSE row[c]]

\* C3: Job.update(id, data) of a stored id with a non-empty data over title,
\* salary, equity, company_handle succeeds, returns the updated record and
\* sets exactly the named fields of that row, every other row unchanged.
C3_UpdateSucceeds ==
    res = Idle =>
        \A key \in JobKeys, data \in JobUpdateInputs :
            (JobExists(key) /\ data # <<>>) =>
                LET out == JobUpdate(jobs, nextId, key, data, 0)
                IN  /\ out.err = "none"
                    /\ Len(out.tbl) = Len(jobs)
                    /\ \A i \in 1..Len(jobs) :
                          out.tbl[i] = IF jobs[i]["id"] = Num(ParseInt(key))
                                       THEN UpdatedJobRow(jobs[i], data)
                                       ELSE jobs[i]
                    /\ out.ret = <<JobRecord(UpdatedJobRow(JobsWithId(jobs, key)[1], data))>>

\* The (title, salary, equity, company_handle) tuple of a row or an input.
JobTuple(r) == <<r["title"], r["salary"], r["equity"], r["company_handle"]>>

\* C4: Job.create of a tuple identical to a stored row (salary and equity
\* null included) fails with BadRequest and inserts nothing, so no two stored
\* jobs share a tuple.
C4_NoDuplicateJobs ==
    /\ \A i, k \in 1..Len(jobs) : JobTuple(jobs[i]) = JobTuple(jobs[k]) => i = k
    /\ res = Idle =>
          \A j \in JobInputs :
              (\E i \in 1..Len(jobs) : JobTuple(jobs[i]) = <<j.title, j.salary, j.equity, j.company_handle>>) =>
                  LET out == JobCreate(jobs, nextId, j, 0)
                  IN  out.err = "BadRequest" /\ out.tbl = jobs

\* C5: Company.create of a stored handle fails with BadRequest and leaves
\* the table as it is; of a new handle it appends exactly one row and
\* returns the created record; and no two stored companies ever share a
\* handle, whatever creates, updates and removes came before.
C5_UniqueHandles ==
    /\ \A i, k \in 1..Len(companies) :
          companies[i]["handle"] = companies[k]["handle"] => i = k
    /\ res = Idle =>
          \A c \in CompanyInputs :
              LET out == CompanyCreate(companies, c, 0)
              IN  IF CompanyExists(c.handle.s)
                  THEN out.err = "BadRequest" /\ out.tbl = companies
                  ELSE /\ out.err = "none"
                       /\ Len(out.tbl) = Len(companies) + 1
                       /\ SubSeq(out.tbl, 1, Len(companies)) = companies
                       /\ CompanyRecord(out.tbl[Len(out.tbl)]) = c
                       /\ out.ret = <<c>>

\* A create of a stored handle refused after an update renamed a company.
C5_Witness ==
    /\ res.op = "Company.create"
    /\ res.err = "BadRequest"
    /\ Len(companies) = 2
    /\ \E i \in 1..Len(companies) : companies[i]["name"] = Str("Bolt")

\* C6: get, update (non-empty data) and remove of Company and of Job with a
\* key that matches no stored row fail with NotFound and change no table.
C6_MissingKeyNotFound ==
    res = Idle =>
        /\ \A key \in JobKeys :
              ~JobExists(key) =>
                  /\ JobGet(jobs, nextId, key, 0).err = "NotFound"
                  /\ JobRemove(jobs, nextId, key, 0).err = "NotFound"
                  /\ JobRemove(jobs, nextId, key, 0).tbl = jobs
                  /\ \A data \in JobUpdateInputs :
                        data # <<>> =>
                            /\ JobUpdate(jobs, nextId, key, data, 0).err = "NotFound"
                            /\ JobUpdate(jobs, nextId, key, data, 0).tbl = jobs
        /\ \A handle \in HandleKeys :
              ~CompanyExists(handle) =>
                  /\ CompanyGet(companies, Str(handle), 0).err = "NotFound"
                  /\ CompanyRemove(companies, Str(handle), 0).err = "NotFound"
                  /\ CompanyRemove(companies, Str(handle), 0).tbl = companies
                  /\ \A data \in CompanyUpdateInputs :
                        data # <<>> =>
                            /\ CompanyUpdate(companies, Str(handle), data, 0).err = "NotFound"
                            /\ CompanyUpdate(companies, Str(handle), data, 0).tbl = companies

\* C7: whenever the statement of a get, update or remove of Company or Job
\* faults (a key the id column rejects, a lost connection), the method fails
\* with NotFound.
C7_FaultsBecomeNotFound ==
    res = Idle =>
        /\ \A key \in JobKeys, fault \in Faults(1) :
              (fault = 1 \/ ~IsIntText(key)) =>
                  /\ JobGet(jobs, nextId, key, fault).err = "NotFound"
                  /\ JobRemove(jobs, nextId, key, fault).err = "NotFound"
                  /\ \A data \in JobUpdateInputs :
                        data # <<>> => JobUpdate(jobs, nextId, key, data, fault).err = "NotFound"
        /\ \A handle \in HandleKeys :
              /\ CompanyGet(companies, Str(handle), 1).err = "NotFound"
              /\ CompanyRemove(companies, Str(handle), 1).err = "NotFound"
              /\ \A data \in CompanyUpdateInputs :
                    data # <<>> => CompanyUpdate(companies, Str(handle), data, 1).err = "NotFound"


(***************************************************************************)
(* Properties of the filter builders and of findAll.                       *)
(***************************************************************************)
IsFindAll == res.op \in {"Company.findAll", "Job.findAll"}

\* C8: in Company.findAll and Job.findAll alike, a filter holding both
\* minEmployees and maxEmployees with minEmployees > maxEmployees fails with
\* BadRequest before any statement is issued; with at most one of the two, or
\* minEmployees <= maxEmployees, the call does not fail with BadRequest.
C8_RangeCheck ==
    IsFindAll =>
        IF /\ Prop(res.filter, "minEmployees") # Undefined
           /\ Prop(res.filter, "maxEmployees") # Undefined
           /\ Prop(res.filter, "minEmployees").n > Prop(res.filter, "maxEmployees").n
        THEN res.err = "BadRequest" /\ res.queries = 0 /\ res.ret = <<>>
        ELSE res.err # "BadRequest" /\ res.built.err = "none"

\* Job.findAll refused for minEmployees 2 > maxEmployees 1 on a table with jobs.
C8_Witness ==
    /\ res.op = "Job.findAll"
    /\ res.err = "BadRequest"
    /\ Prop(res.filter, "minEmployees") = Num(2)
    /\ Prop(res.filter, "maxEmployees") = Num(1)
    /\ Len(jobs) = 2

\* The keys a builder reads, in the order it reads them.
RecognizedKeys ==
    IF res.op = "Job.findAll" THEN <<"title", "minSalary", "hasEquity", "company_handle">>
    ELSE <<"name", "minEmployees", "maxEmployees">>

\* The filter holds recognized keys only, each with a non-empty (truthy) value.
OnlyRecognizedNonEmpty ==
    \A i \in 1..Len(res.filter) :
        /\ \E k \in 1..Len(RecognizedKeys) : RecognizedKeys[k] = res.filter[i].k
        /\ Truthy(res.filter[i].v)

\* The value a predicate of the given key is bound to.
BoundValue(k) ==
    CASE k \in {"name", "title"} -> Str("%" \o Prop(res.filter, k).s \o "%")
      [] k = "hasEquity" -> Num(0)
      [] OTHER -> Prop(res.filter, k)

\* The WHERE clause of the call in res is one predicate per key of keys, in
\* that order, the i-th bound to $i and to the i-th value.
WhereClauseOver(keys) ==
    /\ Len(res.built.preds) = Len(keys)
    /\ Len(res.built.sqlStatements) = Len(keys)
    /\ Len(res.built.sqlValues) = Len(keys)
    /\ \A i \in 1..Len(keys) :
          /\ res.built.preds[i] = [kind |-> keys[i], param |-> i]
          /\ res.built.sqlStatements[i] = StatementText(keys[i], i)
          /\ res.built.sqlValues[i] = BoundValue(keys[i])
    /\ res.built.sqlString =
          IF keys = <<>> THEN "" ELSE "WHERE " \o Join(res.built.sqlStatements, " AND ")

\* C9 as stated: for a filter of recognized, non-empty fields only the WHERE
\* clause has one predicate per recognized field of the input, in the fixed
\* key-check order, the i-th bound to $i and to the i-th value; it is the
\* empty string when there is none.
C9_OnePredicatePerField ==
    (IsFindAll /\ OnlyRecognizedNonEmpty /\ res.built.err = "none") =>
        LET Present(k) == HasKey(res.filter, k)
        IN  WhereClauseOver(SelectSeq(RecognizedKeys, Present))

\* C9 as amended: hasEquity counts as a field of the clause only when it is
\* the string "true"; every other recognized field of the input counts.
C9_OnePredicatePerMatchedField ==
    (IsFindAll /\ OnlyRecognizedNonEmpty /\ res.built.err = "none") =>
        LET Matched(k) == /\ HasKey(res.filter, k)
                          /\ k = "hasEquity" => Prop(res.filter, k) = Str("true")
        IN  WhereClauseOver(SelectSeq(RecognizedKeys, Matched))

\* Job.findAll with title, hasEquity "true" and company_handle but no
\* minSalary: three predicates, $1 to $3.
C9_Witness ==
    /\ res.op = "Job.findAll"
    /\ OnlyRecognizedNonEmpty
    /\ res.built.sqlString =
          "WHERE LOWER(title) LIKE LOWER($1) AND equity > $2 AND company_handle = $3"
    /\ res.built.sqlValues = <<Str("%DE%"), Num(0), Str("c1")>>

\* The stored job passes the filters of the call other than hasEquity.
PassesOtherFilters(row) ==
    /\ Truthy(Prop(res.filter, "title")) =>
          Like(Lower(row["title"].s), Lower("%" \o Prop(res.filter, "title").s \o "%"))
    /\ Truthy(Prop(res.filter, "minSalary")) =>
          row["salary"] # Null /\ row["salary"].n >= Prop(res.filter, "minSalary").n
    /\ Truthy(Prop(res.filter, "company_handle")) =>
          row["company_handle"] = Prop(res.filter, "company_handle")

ReturnedIds == {res.ret[i].id : i \in 1..Len(res.ret)}

\* C10: Job.findAll filters on equity exactly when hasEquity is the string
\* "true", returning then only the jobs whose equity is greater than 0; for
\* any other hasEquity (absent, "false", true, false) the jobs with equity 0
\* or null that pass the other filters are returned too.
C10_EquityFilter ==
    (res.op = "Job.findAll" /\ res.err = "none") =>
        /\ (\E i \in 1..Len(res.built.preds) : res.built.preds[i].kind = "hasEquity")
              <=> Prop(res.filter, "hasEquity") = Str("true")
        /\ Len(res.ret) = Cardinality(ReturnedIds)
        /\ ReturnedIds =
              {jobs[i]["id"] : i \in
                  {k \in 1..Len(jobs) :
                      /\ PassesOtherFilters(jobs[k])
                      /\ Prop(res.filter, "hasEquity") = Str("true") =>
                            jobs[k]["equity"] # Null /\ jobs[k]["equity"].n > 0}}

\* hasEquity "false" on a table holding a job with equity 0 and one with
\* equity null: both are returned.
C10_Witness ==
    /\ res.op = "Job.findAll"
    /\ res.err = "none"
    /\ Prop(res.filter, "hasEquity") = Str("false")
    /\ Len(res.ret) = 2
    /\ \E i, k \in 1..2 : res.ret[i].equity = Str("0") /\ res.ret[k].equity = Null

\* The filter of the call in res without the keys outside keys.
FilterOver(keys) ==
    LET Kept(e) == e.k \in keys
    IN  SelectSeq(res.filter, Kept)

\* What the builder of the call in res makes of a filter.
BuiltFor(queryFilters) ==
    IF res.op = "Job.findAll" THEN JobHandleFiltering(queryFilters)
    ELSE CompanyHandleFiltering(queryFilters)

RecognizedKeySet == {RecognizedKeys[i] : i \in 1..Len(RecognizedKeys)}

\* C11 as stated: a key outside title, minSalary, hasEquity, company_handle
\* (Job.findAll) or outside name, minEmployees, maxEmployees (Company.findAll)
\* causes no error, and the builder makes the same WHERE clause and bound
\* values of the filter as of the filter without those keys.
C11_UnrecognizedKeysIgnored ==
    IsFindAll =>
        /\ res.built.err = BuiltFor(FilterOver(RecognizedKeySet)).err
        /\ res.built.sqlString = BuiltFor(FilterOver(RecognizedKeySet)).sqlString
        /\ res.built.sqlValues = BuiltFor(FilterOver(RecognizedKeySet)).sqlValues

\* C11 as amended: Job.findAll reads minEmployees and maxEmployees too, for
\* the range check only.  Keys outside the recognized ones and, in
\* Job.findAll, outside these two cause no error and have no effect on the
\* clause and the values; when the range check passes, minEmployees and
\* maxEmployees have no effect on the clause and the values of Job.findAll.
C11_UnreadKeysIgnored ==
    IsFindAll =>
        LET read == RecognizedKeySet \cup {"minEmployees", "maxEmployees"}
        IN  /\ res.built.err = BuiltFor(FilterOver(read)).err
            /\ res.built.sqlString = BuiltFor(FilterOver(read)).sqlString
            /\ res.built.sqlValues = BuiltFor(FilterOver(read)).sqlValues
            /\ res.built.err = "none" =>
                  /\ BuiltFor(FilterOver(RecognizedKeySet)).err = "none"
                  /\ res.built.sqlString = BuiltFor(FilterOver(RecognizedKeySet)).sqlString
                  /\ res.built.sqlValues = BuiltFor(FilterOver(RecognizedKeySet)).sqlValues

\* Job.findAll with nam and employeecount beside a title: the clause of the
\* title alone.
C11_Witness ==
    /\ res.op = "Job.findAll"
    /\ res.err = "none"
    /\ HasKey(res.filter, "nam")
    /\ HasKey(res.filter, "employeecount")
    /\ res.built.sqlString = "WHERE LOWER(title) LIKE LOWER($1)"
    /\ res.built.sqlValues = <<Str("%DE%")>>
    /\ Len(res.ret) = 1

(***************************************************************************)
(* Properties of the route layer.                                          *)
(***************************************************************************)
\* C12: a write endpoint (POST, PATCH, DELETE of /jobs and /companies) called
\* by an anonymous caller or a non-admin user answers 401 and leaves the
\* tables unchanged, whatever the body and whether or not the row exists;
\* a GET endpoint answers no role with 401.
C12_WritesNeedAdmin ==
    [][res.op = "call" =>
          /\ (res.key \in WriteEndpoints /\ res.role # "admin") =>
                /\ res'.status = 401
                /\ UNCHANGED <<companies, jobs, nextId>>
          /\ res.key \in ReadEndpoints => res'.status \in {200, 404, 500}]_vars

\* PATCH of a stored job by a user with a valid body, answered 401.
C12_Witness ==
    /\ res.op = "PATCH /jobs/:id"
    /\ res.role = "user"
    /\ JobExists(res.id)
    /\ res.body = <<Entry("title", Str("qa"))>>
    /\ res.status = 401

(***************************************************************************)
(* Further properties of the methods.                                      *)
(***************************************************************************)
\* The records of the stored jobs of a company.
JobsAt(handle) ==
    {JobRecord(jobs[i]) : i \in {k \in 1..Len(jobs) : jobs[k]["company_handle"] = Str(handle)}}

\* C13: Company.get(handle) of a stored handle returns the company record with
\* a jobs list holding exactly the stored jobs whose company_handle is that
\* handle, each as id, title, salary, equity, company_handle; of a handle not
\* stored it fails with NotFound.
C13_GetEmbedsJobs ==
    res = Idle =>
        \A handle \in HandleKeys :
            LET out == CompanyGet(companies, Str(handle), 0)
            IN  IF CompanyExists(handle)
                THEN /\ out.err = "none"
                     /\ \A f \in {"handle", "name", "description", "numEmployees", "logoUrl"} :
                           out.ret[1][f] = CompanyRecord(CompaniesWithHandle(companies, Str(handle))[1])[f]
                     /\ "jobs" \in DOMAIN out.ret[1]
                     /\ {out.ret[1]["jobs"][i] : i \in 1..Len(out.ret[1]["jobs"])} = JobsAt(handle)
                     /\ Len(out.ret[1]["jobs"]) = Cardinality(JobsAt(handle))
                ELSE out.err = "NotFound"

\* Two stored jobs with the same title, salary, equity and company_handle,
\* none of them null.
SharedTuple ==
    \E i, k \in 1..Len(jobs) :
        /\ i # k
        /\ JobTuple(jobs[i]) = JobTuple(jobs[k])
        /\ jobs[i]["salary"] # Null
        /\ jobs[i]["equity"] # Null

\* C14: the duplicate check and the INSERT of Job.create are two statements
\* with a suspension between them.  Two stored jobs sharing a tuple (of
\* non-null fields) come only from calls that interleaved, one running its
\* dupeCheck while the other was suspended before its INSERT; calls that run
\* one after the other never leave them.
C14_DuplicatesOnlyByInterleaving ==
    (res.op = "calls" /\ SharedTuple) => res.overlap

\* Two calls with the same tuple both passed the check and both inserted.
C14_Witness ==
    /\ res.op = "calls"
    /\ res.calls[1].j = res.calls[2].j
    /\ res.calls[1].j.salary # Null /\ res.calls[1].j.equity # Null
    /\ res.calls[1].pc = "done" /\ res.calls[1].err = "none"
    /\ res.calls[2].pc = "done" /\ res.calls[2].err = "none"
    /\ SharedTuple
    /\ res.overlap

\* The filter of the call in res without the recognized keys of falsy value.
WithoutFalsy ==
    LET Kept(e) == e.k \in RecognizedKeySet => Truthy(e.v)
    IN  SelectSeq(res.filter, Kept)

\* C15: the builders decide presence by truthiness.  A recognized key whose
\* value is falsy (0, "", null, undefined) has no predicate and no bound
\* value; the clause and the values built are those built with the key
\* absent, as for {minSalary: 0} and {minEmployees: 0}; the remaining
\* predicates are bound to $1, $2, ... without a gap.
C15_FalsyValuesAreAbsent ==
    IsFindAll =>
        /\ \A i \in 1..Len(res.built.preds) : Truthy(Prop(res.filter, res.built.preds[i].kind))
        /\ Len(res.built.sqlValues) = Len(res.built.preds)
        /\ \A i \in 1..Len(res.built.preds) :
              /\ res.built.preds[i].param = i
              /\ res.built.sqlStatements[i] = StatementText(res.built.preds[i].kind, i)
        /\ res.built.err = "none" =>
              /\ BuiltFor(WithoutFalsy).err = "none"
              /\ res.built.sqlString = BuiltFor(WithoutFalsy).sqlString
              /\ res.built.sqlValues = BuiltFor(WithoutFalsy).sqlValues
              /\ res.err = "none" =>
                    res.ret = IF res.op = "Job.findAll"
                              THEN JobFindAll(jobs, nextId, WithoutFalsy, 0).ret
                              ELSE CompanyFindAll(companies, WithoutFalsy, 0).ret
        /\ res.filter \in {<<Entry("minSalary", Num(0))>>, <<Entry("minEmployees", Num(0))>>} =>
              res.built.err = "none" /\ res.built.sqlString = "" /\ res.built.sqlValues = <<>>

\* Job.findAll with title 0 and minSalary 0 beside hasEquity "true" and a
\* company_handle: two predicates, $1 and $2.
C15_Witness ==
    /\ res.op = "Job.findAll"
    /\ res.err = "none"
    /\ Prop(res.filter, "title") = Num(0)
    /\ Prop(res.filter, "minSalary") = Num(0)
    /\ res.built.sqlString = "WHERE equity > $1 AND company_handle = $2"
    /\ res.built.sqlValues = <<Num(0), Str("c1")>>
    /\ Len(jobs) = 2

\* The ids the serial has handed out that are no longer stored.
RemovedKeys == {key \in JobKeys : IsIntText(key) /\ ParseInt(key) < nextId /\ ~JobExists(key)}

\* C16: Job.remove(id) of a stored id deletes that row and leaves every other
\* row as it was.  From then on the id stays absent, whatever is called, and
\* Job.get(id) and a second Job.remove(id) fail with NotFound, the second
\* remove leaving the table as it is.
C16_RemovedStaysRemoved ==
    [][/\ (res'.op = "Job.remove" /\ res'.err = "none") =>
            /\ JobExists(res'.key)
            /\ Len(jobs') = Len(jobs) - 1
            /\ \A i \in 1..Len(jobs) :
                  IF jobs[i]["id"] = Num(ParseInt(res'.key))
                  THEN \A k \in 1..Len(jobs') : jobs'[k]["id"] # jobs[i]["id"]
                  ELSE \E k \in 1..Len(jobs') : jobs'[k] = jobs[i]
       /\ (res'.op = "Job.remove" /\ res'.err # "none") => jobs' = jobs
       /\ \A key \in RemovedKeys :
            /\ ~JobExists(key)'
            /\ \A fault \in Faults(1) :
                  /\ JobGet(jobs', nextId', key, fault).err = "NotFound"
                  /\ JobRemove(jobs', nextId', key, fault).err = "NotFound"
                  /\ JobRemove(jobs', nextId', key, fault).tbl = jobs'
      ]_vars

\* A second Job.remove of job 1, answered NotFound, job 2 still stored.
C16_Witness ==
    /\ res.op = "Job.remove"
    /\ res.key = "1"
    /\ res.err = "NotFound"
    /\ nextId > 2
    /\ ~JobExists("1")
    /\ JobExists("2")

=============================================================================
